---- MODULE Spec2Model ----
(***************************************************************************)
(* The cross-validation driver of main.py: argument values, the kFolds     *)
(* generator, getRmse (training data, timers, the test loop, infos, stats) *)
(* and the final mean-RMSE report.  The executed statements of main() are  *)
(* the actions; pc is the position of the single thread of control.        *)
(*                                                                         *)
(* A raw rating is the 4-tuple (user, item, rating, timestamp) that        *)
(* Reader.ratings exposes.  The datasets drawn here carry the line number  *)
(* of the rating as its timestamp, so that a rating keeps its identity     *)
(* through the shuffle and the slices.                                     *)
(***************************************************************************)
EXTENDS Integers, Sequences, FiniteSets, Bags, TLC

\* ---- bounds of the model ----
MaxLen == 3          \* longest dataset loaded for cross-validation
MaxTrainLen == 1     \* longest train file
MaxTestLen == 2      \* longest test file
MaxCv == 3           \* largest -cv value

None == "None"
Users == {"u1", "u2"}
Items == {"i1", "i2"}
RatingValues == {4}
CvValues == (0 - 1)..MaxCv
KValues == {0, 40}
TrainFileValues == {None, "", "u1.base"}
TestFileValues == {None, "u1.test"}

VARIABLES
    args,             \* parsed arguments: cv, k, trainFile, testFile
    pc,               \* position in main()
    loads,            \* file arguments of the getRawRatings calls made so far
    orig,             \* the dataset as getRawRatings returned it
    rawRatings,       \* main's rawRatings; kFolds shuffles it in place
    gen,              \* frame of the kFolds generator: started, fold, start, stop
    nShuffles,        \* number of rd.shuffle calls made
    yielded,          \* the folds the generator has yielded so far
    trainRawRatings,  \* getRmse parameter
    testRawRatings,   \* getRmse parameter
    trainingData,     \* getRmse local
    algo,             \* getRmse local: the algorithm instance (preds, infos)
    idx,              \* number of test ratings the for loop has consumed
    nPredict,         \* number of algo.predict calls in the current getRmse
    now,              \* process CPU time
    timers,           \* getRmse locals and the instants of the readings
    dumped,           \* the infos dumpInfos saw in the current getRmse
    rmses,            \* main's rmses
    reported          \* what the "Mean RMSE" line printed

vars == <<args, pc, loads, orig, rawRatings, gen, nShuffles, yielded,
          trainRawRatings, testRawRatings, trainingData, algo, idx, nPredict,
          now, timers, dumped, rmses, reported>>

\* ---- helpers ----
Range(s) == {s[j] : j \in DOMAIN s}

\* Python truthiness of an optional string argument
Truthy(x) == x # None /\ x # ""

\* the condition of the if on the two file arguments
BothFilesSetOr(a) == Truthy(a.trainFile) \/ Truthy(a.testFile)
BothFilesSet(a) == Truthy(a.trainFile) /\ Truthy(a.testFile)

\* the rating lists of at most n lines, line j carrying timestamp j
Datasets(n) ==
    UNION {{[j \in 1..m |-> <<f[j][1], f[j][2], f[j][3], j>>] :
              f \in [1..m -> Users \X Items \X RatingValues]} : m \in 0..n}

\* The datasets loaded for cross-validation.  kFolds shuffles the list
\* before anything reads it, so the order of the file reaches the run only
\* through the shuffle, which draws every order: one file order per multiset
\* of (user, item, rating) lines is drawn here, the non-decreasing one.
Rank(r) ==
    (IF r[1] = "u1" THEN 0 ELSE 2) + (IF r[2] = "i1" THEN 0 ELSE 1)
CvDatasets(n) ==
    {d \in Datasets(n) :
        \A j \in 1..(Len(d) - 1) : Rank(d[j]) <= Rank(d[j + 1])}

\* every order rd.shuffle can leave the list in
Shuffles(s) ==
    {[j \in 1..Len(s) |-> s[p[j]]] : p \in Permutations(1..Len(s))}

\* Python slices seq[:stop] and seq[start:] and seq[start:stop], 0-based
Slice(s, start, stop) == SubSeq(s, start + 1, stop)

\* the first return value of the yield: seq[:start] + seq[stop:]
TrainSliceWhole(s, start, stop) == s
TrainSliceSkip(s, start, stop) == Slice(s, 0, start) \o Slice(s, stop + 1, Len(s))
TrainSlice(s, start, stop) == Slice(s, 0, start) \o Slice(s, stop, Len(s))

\* the second return value of the yield: seq[start:stop]
TestSlice(s, start, stop) == Slice(s, start, stop)

\* the new value of stop in the loop body of kFolds
NextStopNoExtra(n, k, fold, stop) == stop + (n \div k)
NextStop(n, k, fold, stop) ==
    stop + (n \div k) + (IF fold < n % k THEN 1 ELSE 0)

\* raw id -> inner id, dense, 0-based, in first-seen order
FirstPos(s, field, x) ==
    CHOOSE j \in 1..Len(s) :
        s[j][field] = x /\ \A m \in 1..(j - 1) : s[m][field] # x
RawToInnerId(s, field) ==
    LET ids == {s[j][field] : j \in 1..Len(s)}
    IN  [x \in ids |->
           Cardinality({y \in ids : FirstPos(s, field, y) < FirstPos(s, field, x)})]

\* TrainingData(reader): the index main reads
TrainingData(s) ==
    [ratings |-> s,
     rawToInnerIdUsers |-> RawToInnerId(s, 1),
     rawToInnerIdItems |-> RawToInnerId(s, 2)]

\* TrainingData(reader) raises on an empty rating list
TrainingDataFails(s) == s = <<>>

\* a dictionary lookup: <<value>>, or KeyError when the key is absent
KeyError == <<>>
Lookup(map, x) == IF x \in DOMAIN map THEN <<map[x]>> ELSE KeyError

\* lines 169-175: the except clause is taken, and the pair skipped, when
\* either lookup raised
SkipsAlways(u, i) == TRUE
Skips(u, i) == u = KeyError \/ i = KeyError

\* kFolds shuffles on its first resumption only (line 136 is outside the loop)
ShufflesNowAlways(g) == TRUE
ShufflesNow(g) == ~g.started

\* rmses.append(getRmse(...)), lines 200 and 209
AppendRmseOverwrite(l, v) == <<v>>
AppendRmse(l, v) == Append(l, v)

\* a new algorithm instance
NewAlgo(td, a) == [k |-> a.k, preds |-> <<>>, infos |-> <<>>]

\* algo.predict(u0, i0, r0, verbose): a record is appended to algo.preds
Predict(al, u0, i0, r0) == [al EXCEPT !.preds = Append(@, <<u0, i0, r0>>)]

\* stats.computeStats(preds)
ComputeStats(preds) == [nPreds |-> Len(preds), over |-> preds]

\* stats.computeStats(preds) raises on an empty prediction list
ComputeStatsFails(preds) == preds = <<>>

\* np.mean(rmses): nan (with a warning) on the empty list
Mean(l) == IF l = <<>> THEN "nan" ELSE <<"mean", l>>

\* a time not read yet
NoTime == 0 - 1
NoTimers == [trainStartTime |-> NoTime, trainingTime |-> NoTime,
             trainStopAt |-> NoTime, algoFrom |-> NoTime, algoTo |-> NoTime,
             testTimeStart |-> NoTime, testingTime |-> NoTime]
NoGen == [started |-> FALSE, fold |-> 0, start |-> 0, stop |-> 0]

Init ==
    /\ args \in [cv : CvValues, k : KValues,
                 trainFile : TrainFileValues, testFile : TestFileValues]
    /\ pc = "start"
    /\ loads = <<>>
    /\ orig = <<>>
    /\ rawRatings = <<>>
    /\ gen = NoGen
    /\ nShuffles = 0
    /\ yielded = <<>>
    /\ trainRawRatings = <<>>
    /\ testRawRatings = <<>>
    /\ trainingData = None
    /\ algo = None
    /\ idx = 0
    /\ nPredict = 0
    /\ now = 0
    /\ timers = NoTimers
    /\ dumped = None
    /\ rmses = <<>>
    /\ reported = None

\* lines 195-200: both files given; getRmse is entered with their ratings
LoadFiles ==
    /\ pc = "start"
    /\ BothFilesSet(args)
    /\ \E tr \in Datasets(MaxTrainLen), te \in Datasets(MaxTestLen) :
          /\ trainRawRatings' = tr
          /\ testRawRatings' = te
    /\ loads' = loads \o <<args.trainFile, args.testFile>>
    /\ pc' = "build"
    /\ UNCHANGED <<args, orig, rawRatings, gen, nShuffles, yielded,
                   trainingData, algo, idx, nPredict, now, timers, dumped,
                   rmses, reported>>

\* line 203: the named dataset is loaded; kFolds(rawRatings, args.cv) is
\* created (lines 204-205), which runs none of its body yet
LoadDataset ==
    /\ pc = "start"
    /\ ~BothFilesSet(args)
    /\ \E d \in CvDatasets(MaxLen) :
          /\ rawRatings' = d
          /\ orig' = d
    /\ loads' = loads \o <<None>>
    /\ gen' = NoGen
    /\ pc' = "nextFold"
    /\ UNCHANGED <<args, nShuffles, yielded, trainRawRatings, testRawRatings,
                   trainingData, algo, idx, nPredict, now, timers, dumped,
                   rmses, reported>>

\* lines 204-209 and 134-143: the for loop resumes the generator.  The first
\* resumption shuffles; every resumption runs the loop of kFolds up to the
\* next yield, or to its end.
KFoldsNext ==
    /\ pc = "nextFold"
    /\ \E seq \in (IF ShufflesNow(gen) THEN Shuffles(rawRatings) ELSE {rawRatings}) :
          LET k == args.cv
              fold == gen.fold
              start == gen.stop
              stop == NextStop(Len(seq), k, fold, gen.stop)
          IN  /\ rawRatings' = seq
              /\ nShuffles' = IF ShufflesNow(gen) THEN nShuffles + 1 ELSE nShuffles
              /\ IF fold < k
                 THEN /\ gen' = [started |-> TRUE, fold |-> fold + 1,
                                 start |-> start, stop |-> stop]
                      /\ trainRawRatings' = TrainSlice(seq, start, stop)
                      /\ testRawRatings' = TestSlice(seq, start, stop)
                      /\ yielded' = Append(yielded,
                                       [start |-> start, stop |-> stop,
                                        trainSet |-> TrainSlice(seq, start, stop),
                                        testSet |-> TestSlice(seq, start, stop),
                                        rmsesBefore |-> Len(rmses)])
                      /\ pc' = "build"
                 ELSE /\ gen' = [gen EXCEPT !.started = TRUE]
                      /\ UNCHANGED <<trainRawRatings, testRawRatings, yielded>>
                      /\ pc' = "report"
    /\ UNCHANGED <<args, loads, orig, trainingData, algo, idx, nPredict, now,
                   timers, dumped, rmses, reported>>

\* lines 148-151: the readers and the TrainingData of this call
BuildTrainingData ==
    /\ pc = "build"
    /\ IF TrainingDataFails(trainRawRatings)
       THEN /\ pc' = "failed"
            /\ trainingData' = None
       ELSE /\ trainingData' = TrainingData(trainRawRatings)
            /\ pc' = "timerStart"
    /\ algo' = None
    /\ idx' = 0
    /\ nPredict' = 0
    /\ timers' = NoTimers
    /\ dumped' = None
    /\ now' = now + 1
    /\ UNCHANGED <<args, loads, orig, rawRatings, gen, nShuffles, yielded,
                   trainRawRatings, testRawRatings, rmses, reported>>

\* line 153
StartTrainTimer ==
    /\ pc = "timerStart"
    /\ timers' = [timers EXCEPT !.trainStartTime = now]
    /\ now' = now + 1
    /\ pc' = "timerStop"
    /\ UNCHANGED <<args, loads, orig, rawRatings, gen, nShuffles, yielded,
                   trainRawRatings, testRawRatings, trainingData, algo, idx,
                   nPredict, dumped, rmses, reported>>

\* line 154
StopTrainTimer ==
    /\ pc = "timerStop"
    /\ timers' = [timers EXCEPT !.trainingTime = now - timers.trainStartTime,
                                !.trainStopAt = now]
    /\ now' = now + 1
    /\ pc' = "construct"
    /\ UNCHANGED <<args, loads, orig, rawRatings, gen, nShuffles, yielded,
                   trainRawRatings, testRawRatings, trainingData, algo, idx,
                   nPredict, dumped, rmses, reported>>

\* lines 156-163: the algorithm instance is built (trained), then the test
\* timer is read
ConstructAlgo ==
    /\ pc = "construct"
    /\ algo' = NewAlgo(trainingData, args)
    /\ timers' = [timers EXCEPT !.algoFrom = now, !.algoTo = now + 1,
                                !.testTimeStart = now + 1]
    /\ now' = now + 2
    /\ pc' = "test"
    /\ UNCHANGED <<args, loads, orig, rawRatings, gen, nShuffles, yielded,
                   trainRawRatings, testRawRatings, trainingData, idx,
                   nPredict, dumped, rmses, reported>>

\* lines 164-180: one iteration of the loop over readerTest.ratings
TestPair ==
    /\ pc = "test"
    /\ idx < Len(testRawRatings)
    /\ LET r == testRawRatings[idx + 1]
           r0 == r[3]
           u0 == Lookup(trainingData.rawToInnerIdUsers, r[1])
           i0 == Lookup(trainingData.rawToInnerIdItems, r[2])
       IN  IF Skips(u0, i0)
           THEN UNCHANGED <<algo, nPredict>>
           ELSE /\ algo' = Predict(algo, u0[1], i0[1], r0)
                /\ nPredict' = nPredict + 1
    /\ idx' = idx + 1
    /\ now' = now + 1
    /\ UNCHANGED <<args, pc, loads, orig, rawRatings, gen, nShuffles, yielded,
                   trainRawRatings, testRawRatings, trainingData, timers,
                   dumped, rmses, reported>>

\* lines 182-188: the loop is exhausted; the two times go into algo.infos
StoreInfos ==
    /\ pc = "test"
    /\ idx = Len(testRawRatings)
    /\ timers' = [timers EXCEPT !.testingTime = now - timers.testTimeStart]
    /\ algo' = [algo EXCEPT !.infos =
                  [trainingTime |-> timers.trainingTime,
                   testingTime |-> now - timers.testTimeStart]]
    /\ now' = now + 1
    /\ pc' = "dump"
    /\ UNCHANGED <<args, loads, orig, rawRatings, gen, nShuffles, yielded,
                   trainRawRatings, testRawRatings, trainingData, idx,
                   nPredict, dumped, rmses, reported>>

\* lines 190-193 and 200 / 209: dumpInfos, computeStats, and the append of
\* the returned value to rmses
DumpAndStats ==
    /\ pc = "dump"
    /\ dumped' = algo.infos
    /\ IF ComputeStatsFails(algo.preds)
       THEN /\ pc' = "failed"
            /\ UNCHANGED rmses
       ELSE /\ rmses' = AppendRmse(rmses, ComputeStats(algo.preds))
            /\ pc' = IF BothFilesSet(args) THEN "report" ELSE "nextFold"
    /\ now' = now + 1
    /\ UNCHANGED <<args, loads, orig, rawRatings, gen, nShuffles, yielded,
                   trainRawRatings, testRawRatings, trainingData, algo, idx,
                   nPredict, timers, reported>>

\* lines 211-212
Report ==
    /\ pc = "report"
    /\ reported' = Mean(rmses)
    /\ pc' = "done"
    /\ UNCHANGED <<args, loads, orig, rawRatings, gen, nShuffles, yielded,
                   trainRawRatings, testRawRatings, trainingData, algo, idx,
                   nPredict, now, timers, dumped, rmses>>

Next ==
    \/ LoadFiles
    \/ LoadDataset
    \/ KFoldsNext
    \/ BuildTrainingData
    \/ StartTrainTimer
    \/ StopTrainTimer
    \/ ConstructAlgo
    \/ TestPair
    \/ StoreInfos
    \/ DumpAndStats
    \/ Report

Spec == Init /\ [][Next]_vars

\* ---- vocabulary of the properties ----
CrossValidation == ~(Truthy(args.trainFile) /\ Truthy(args.testFile))
InGetRmse == pc \in {"timerStart", "timerStop", "construct", "test", "dump"}
Finished == pc \in {"report", "done"}

BagOf(s) == [x \in Range(s) |-> Cardinality({j \in DOMAIN s : s[j] = x})]
Tags(s) == {s[j][4] : j \in DOMAIN s}
Positions(f) == (f.start + 1)..f.stop
Abs(x) == IF x < 0 THEN 0 - x ELSE x
Last(s) == s[Len(s)]

RECURSIVE ConcatTests(_)
ConcatTests(n) ==
    IF n = 0 THEN <<>> ELSE ConcatTests(n - 1) \o yielded[n].testSet

\* a test rating whose raw user and raw item both occur in the training list
BothKnown(train, r) ==
    /\ \E t \in Range(train) : t[1] = r[1]
    /\ \E t \in Range(train) : t[2] = r[2]

\* the records a fold's test list must leave in preds, in order
RECURSIVE ExpectedPredsWith(_, _, _, _)
ExpectedPredsWith(train, users, items, test) ==
    IF test = <<>>
    THEN <<>>
    ELSE LET r == Last(test)
             rest == ExpectedPredsWith(train, users, items,
                                       SubSeq(test, 1, Len(test) - 1))
         IN  IF BothKnown(train, r)
             THEN Append(rest, <<users[r[1]], items[r[2]], r[3]>>)
             ELSE rest
ExpectedPreds(train, test) ==
    ExpectedPredsWith(train, RawToInnerId(train, 1), RawToInnerId(train, 2), test)

\* C1: the test sets of the folds of kFolds(ratings, k), k >= 1, are pairwise
\* disjoint as positions of the shuffled list, differ in size by at most 1,
\* and once all k are yielded their multiset union is the rating list.
C1_KFoldsPartition ==
    /\ \A a, b \in DOMAIN yielded :
          /\ a # b =>
                /\ Positions(yielded[a]) \cap Positions(yielded[b]) = {}
                /\ Tags(yielded[a].testSet) \cap Tags(yielded[b].testSet) = {}
          /\ Abs(Len(yielded[a].testSet) - Len(yielded[b].testSet)) <= 1
    /\ (args.cv >= 1 /\ Len(yielded) = args.cv) =>
          BagOf(ConcatTests(args.cv)) = BagOf(orig)

C1_Witness ==
    /\ args.cv = 2
    /\ Len(yielded) = 2
    /\ Len(orig) = 3
    /\ Len(yielded[1].testSet) = 2
    /\ Len(yielded[2].testSet) = 1

\* C2: every yielded fold splits the rating list: its train set and its test
\* set share no rating of the shuffled list, and together they are the whole
\* multiset of ratings.
C2_FoldIsSplit ==
    \A f \in DOMAIN yielded :
        LET tr == yielded[f].trainSet
            te == yielded[f].testSet
        IN  /\ Tags(tr) \cap Tags(te) = {}
            /\ BagOf(tr) (+) BagOf(te) = BagOf(orig)
            /\ Len(tr) + Len(te) = Len(orig)
            /\ \A j \in DOMAIN tr :
                  \E q \in (1..Len(rawRatings)) \ Positions(yielded[f]) :
                      rawRatings[q] = tr[j]

C2_Witness ==
    /\ Len(yielded) = 2
    /\ Len(yielded[2].trainSet) = 2
    /\ Len(yielded[2].testSet) = 1
    /\ yielded[2].start = 2

\* C3: the list is shuffled exactly once, before the first yield; fold f's
\* test set is the range [start_f, stop_f) of that one shuffled list; the
\* ranges are adjacent and in order from 0 to len, range f (0-based) having
\* len // k + 1 elements when f < len % k and len // k otherwise.
C3_ContiguousRanges ==
    /\ nShuffles <= 1
    /\ (yielded # <<>> \/ (CrossValidation /\ Finished)) => nShuffles = 1
    /\ BagOf(rawRatings) = BagOf(orig)
    /\ \A f \in DOMAIN yielded :
          LET n == Len(rawRatings)
              k == args.cv
          IN  /\ yielded[f].testSet =
                    [j \in 1..(yielded[f].stop - yielded[f].start) |->
                        rawRatings[yielded[f].start + j]]
              /\ yielded[f].start = IF f = 1 THEN 0 ELSE yielded[f - 1].stop
              /\ yielded[f].stop - yielded[f].start =
                    (n \div k) + (IF f - 1 < n % k THEN 1 ELSE 0)
    /\ (args.cv >= 1 /\ Len(yielded) = args.cv) =>
          Last(yielded).stop = Len(rawRatings)

C3_Witness ==
    /\ Len(yielded) = 3
    /\ args.cv = 3
    /\ Len(orig) = 2
    /\ rawRatings # orig
    /\ Last(yielded).testSet = <<>>

\* C4: in one getRmse, predict is called for exactly the test pairs whose raw
\* user and raw item both occur in the training data, one record per call; a
\* pair with an unknown identifier is skipped and the loop goes on to the end.
C4_UnknownSkipped ==
    pc \in {"test", "dump"} =>
        /\ nPredict =
              Cardinality({j \in 1..idx :
                              BothKnown(trainRawRatings, testRawRatings[j])})
        /\ Len(algo.preds) = nPredict
        /\ pc = "dump" => idx = Len(testRawRatings)

C4_Witness ==
    /\ pc = "dump"
    /\ Len(testRawRatings) = 2
    /\ ~BothKnown(trainRawRatings, testRawRatings[1])
    /\ BothKnown(trainRawRatings, testRawRatings[2])
    /\ nPredict = 1

\* C5: a run with a non-positive neighbor count or a non-positive fold count
\* is rejected at startup: nothing is loaded, shuffled, trained or reported.
C5_ConfigRejected ==
    (args.cv <= 0 \/ args.k <= 0) =>
        /\ loads = <<>>
        /\ nShuffles = 0
        /\ yielded = <<>>
        /\ pc \in {"start", "failed"}
        /\ reported = None

\* C6: in cross-validation each fold trains on a TrainingData built from that
\* fold's train set only, which holds no rating of the fold's test range, and
\* preds holds only the records of that fold's test pairs.
C6_NoLeakAcrossFolds ==
    (CrossValidation /\ InGetRmse) =>
        /\ yielded # <<>>
        /\ LET f == Last(yielded)
           IN  /\ trainingData = TrainingData(f.trainSet)
               /\ Tags(trainingData.ratings)
                     \cap Tags(Slice(rawRatings, f.start, f.stop)) = {}
               /\ Tags(trainingData.ratings) \cap Tags(testRawRatings) = {}
               /\ pc \in {"test", "dump"} =>
                     algo.preds =
                        ExpectedPreds(f.trainSet, SubSeq(f.testSet, 1, idx))

C6_Witness ==
    /\ CrossValidation
    /\ pc = "dump"
    /\ Len(yielded) = 2
    /\ Len(rmses) = 1
    /\ Len(algo.preds) = 1
    /\ Len(trainingData.ratings) = 2

\* C7: whenever the mean RMSE is reported, rmses is non-empty and every entry
\* was computed from at least one Prediction Record.
C7_NoSilentNaN ==
    reported # None =>
        /\ rmses # <<>>
        /\ \A n \in DOMAIN rmses : rmses[n].nPreds > 0
        /\ reported # "nan"

\* C8: in cross-validation with cv >= 1, fold n+1 is generated only after
\* fold n's result was appended to rmses, and when the mean is computed rmses
\* holds cv entries, the n-th being the statistics of the n-th fold.
C8_FoldsInOrder ==
    (CrossValidation /\ args.cv >= 1) =>
        /\ \A n \in DOMAIN yielded : yielded[n].rmsesBefore = n - 1
        /\ (pc = "build" \/ InGetRmse) => Len(rmses) = Len(yielded) - 1
        /\ pc = "nextFold" => Len(rmses) = Len(yielded)
        /\ Finished =>
              /\ Len(yielded) = args.cv
              /\ Len(rmses) = args.cv
              /\ \A n \in DOMAIN rmses :
                    rmses[n] = ComputeStats(ExpectedPreds(yielded[n].trainSet,
                                                          yielded[n].testSet))

C8_Witness ==
    /\ CrossValidation
    /\ pc = "done"
    /\ args.cv = 3
    /\ Len(rmses) = 3

\* C9: with both trainFile and testFile set, one evaluation is run on the two
\* files, without shuffle or folds, and rmses ends with one entry whatever cv
\* is; otherwise the named dataset alone is loaded and cross-validated in cv
\* folds.
C9_CvIgnoredWithFiles ==
    IF Truthy(args.trainFile) /\ Truthy(args.testFile)
    THEN /\ nShuffles = 0
         /\ yielded = <<>>
         /\ loads \in {<<>>, <<args.trainFile, args.testFile>>}
         /\ Len(rmses) <= 1
         /\ Finished => Len(rmses) = 1
    ELSE /\ loads \in {<<>>, <<None>>}
         /\ pc # "start" => loads = <<None>>
         /\ Len(yielded) <= args.cv \/ yielded = <<>>
         /\ Finished =>
               /\ nShuffles = 1
               /\ Len(yielded) = (IF args.cv > 0 THEN args.cv ELSE 0)
               /\ Len(rmses) = Len(yielded)

C9_Witness ==
    /\ Truthy(args.trainFile) /\ Truthy(args.testFile)
    /\ args.cv = 0
    /\ pc = "done"
    /\ Len(rmses) = 1
    /\ loads = <<"u1.base", "u1.test">>

\* C10: the interval measured as trainingTime encloses the construction of the
\* algorithm instance, and infos holds the value when dumpInfos runs.
C10_TrainingTimeEnclosesTraining ==
    /\ timers.algoTo # NoTime =>
          /\ timers.trainStartTime <= timers.algoFrom
          /\ timers.algoTo <= timers.trainStopAt
    /\ pc \in {"nextFold", "report", "done"} /\ rmses # <<>> =>
          dumped.trainingTime = timers.trainingTime
====
